---- MODULE Spec2Model ----
(***************************************************************************)
(* A model of server.js: the handler getCityWeather of GET                 *)
(* /api/weather/:id, the static table CITY_MAP, and the two ways the       *)
(* framework can treat a rejection of the handler's promise.               *)
(*                                                                         *)
(* Strings that the code inspects character by character (the city token,  *)
(* the table's ids and names, the forecast values) are sequences of        *)
(* Unicode code points.  Texts the code only emits are ASCII tags that     *)
(* stand for the literal in the source.                                    *)
(***************************************************************************)
EXTENDS Naturals, Sequences, FiniteSets

VARIABLES
  CWA_API_KEY,   \* server.js:11, process.env.CWA_API_KEY
  cityId,        \* server.js:61, req.params.id
  pc,            \* where the request is
  locationName,  \* server.js:83
  calls,         \* how many times axios.get (server.js:87) was called
  upstream,      \* what the upstream call produced
  res            \* the response object of the request

vars == <<CWA_API_KEY, cityId, pc, locationName, calls, upstream, res>>

----------------------------------------------------------------------------
(* Bounds of the upstream payloads the model draws. *)

MaxElements == 3
MaxSlots == 2

----------------------------------------------------------------------------
(* JavaScript values *)

Str(s) == [type |-> "string", val |-> s]
Undefined == [type |-> "undefined", val |-> <<>>]
Null == [type |-> "null", val |-> <<>>]
Fn(name) == [type |-> "function", val |-> name]

\* ToBoolean, as used by `!x` and `a || b`
Truthy(v) ==
  CASE v.type = "string" -> v.val # <<>>
    [] v.type = "function" -> TRUE
    [] v.type = "object" -> TRUE
    [] OTHER -> FALSE

\* String.prototype.toLowerCase on the characters validPattern lets through
toLowerCase(s) ==
  [i \in 1..Len(s) |-> IF s[i] >= 65 /\ s[i] <= 90 THEN s[i] + 32 ELSE s[i]]

----------------------------------------------------------------------------
(* CITY_MAP, server.js:15-38, in definition order *)

CITY_MAP ==
  <<
   \* taipei: U+81FA U+5317 U+5E02
     [id |-> <<116, 97, 105, 112, 101, 105>>,
      name |-> <<33274, 21271, 24066>>],
   \* new-taipei: U+65B0 U+5317 U+5E02
     [id |-> <<110, 101, 119, 45, 116, 97, 105, 112, 101, 105>>,
      name |-> <<26032, 21271, 24066>>],
   \* taoyuan: U+6843 U+5712 U+5E02
     [id |-> <<116, 97, 111, 121, 117, 97, 110>>,
      name |-> <<26691, 22290, 24066>>],
   \* taichung: U+81FA U+4E2D U+5E02
     [id |-> <<116, 97, 105, 99, 104, 117, 110, 103>>,
      name |-> <<33274, 20013, 24066>>],
   \* tainan: U+81FA U+5357 U+5E02
     [id |-> <<116, 97, 105, 110, 97, 110>>,
      name |-> <<33274, 21335, 24066>>],
   \* kaohsiung: U+9AD8 U+96C4 U+5E02
     [id |-> <<107, 97, 111, 104, 115, 105, 117, 110, 103>>,
      name |-> <<39640, 38596, 24066>>],
   \* keelung: U+57FA U+9686 U+5E02
     [id |-> <<107, 101, 101, 108, 117, 110, 103>>,
      name |-> <<22522, 38534, 24066>>],
   \* hsinchu: U+65B0 U+7AF9 U+5E02
     [id |-> <<104, 115, 105, 110, 99, 104, 117>>,
      name |-> <<26032, 31481, 24066>>],
   \* hsinchu-county: U+65B0 U+7AF9 U+7E23
     [id |-> <<104, 115, 105, 110, 99, 104, 117, 45, 99, 111, 117, 110, 116, 121>>,
      name |-> <<26032, 31481, 32291>>],
   \* chiayi: U+5609 U+7FA9 U+5E02
     [id |-> <<99, 104, 105, 97, 121, 105>>,
      name |-> <<22025, 32681, 24066>>],
   \* chiayi-county: U+5609 U+7FA9 U+7E23
     [id |-> <<99, 104, 105, 97, 121, 105, 45, 99, 111, 117, 110, 116, 121>>,
      name |-> <<22025, 32681, 32291>>],
   \* miaoli: U+82D7 U+6817 U+7E23
     [id |-> <<109, 105, 97, 111, 108, 105>>,
      name |-> <<33495, 26647, 32291>>],
   \* changhua: U+5F70 U+5316 U+7E23
     [id |-> <<99, 104, 97, 110, 103, 104, 117, 97>>,
      name |-> <<24432, 21270, 32291>>],
   \* nantou: U+5357 U+6295 U+7E23
     [id |-> <<110, 97, 110, 116, 111, 117>>,
      name |-> <<21335, 25237, 32291>>],
   \* yunlin: U+96F2 U+6797 U+7E23
     [id |-> <<121, 117, 110, 108, 105, 110>>,
      name |-> <<38642, 26519, 32291>>],
   \* pingtung: U+5C4F U+6771 U+7E23
     [id |-> <<112, 105, 110, 103, 116, 117, 110, 103>>,
      name |-> <<23631, 26481, 32291>>],
   \* yilan: U+5B9C U+862D U+7E23
     [id |-> <<121, 105, 108, 97, 110>>,
      name |-> <<23452, 34349, 32291>>],
   \* hualien: U+82B1 U+84EE U+7E23
     [id |-> <<104, 117, 97, 108, 105, 101, 110>>,
      name |-> <<33457, 34030, 32291>>],
   \* taitung: U+81FA U+6771 U+7E23
     [id |-> <<116, 97, 105, 116, 117, 110, 103>>,
      name |-> <<33274, 26481, 32291>>],
   \* penghu: U+6F8E U+6E56 U+7E23
     [id |-> <<112, 101, 110, 103, 104, 117>>,
      name |-> <<28558, 28246, 32291>>],
   \* kinmen: U+91D1 U+9580 U+7E23
     [id |-> <<107, 105, 110, 109, 101, 110>>,
      name |-> <<37329, 38272, 32291>>],
   \* lienchiang: U+9023 U+6C5F U+7E23
     [id |-> <<108, 105, 101, 110, 99, 104, 105, 97, 110, 103>>,
      name |-> <<36899, 27743, 32291>>]
  >>

\* The property names CITY_MAP inherits from Object.prototype: CITY_MAP is
\* an object literal, so CITY_MAP[key] finds these too.
ObjectPrototypeKeys ==
  {
     <<99, 111, 110, 115, 116, 114, 117, 99, 116, 111, 114>>,  \* constructor
     <<116, 111, 83, 116, 114, 105, 110, 103>>,  \* toString
     <<118, 97, 108, 117, 101, 79, 102>>,  \* valueOf
     <<104, 97, 115, 79, 119, 110, 80, 114, 111, 112, 101, 114, 116, 121>>,  \* hasOwnProperty
     <<105, 115, 80, 114, 111, 116, 111, 116, 121, 112, 101, 79, 102>>,  \* isPrototypeOf
     <<112, 114, 111, 112, 101, 114, 116, 121, 73, 115, 69, 110, 117, 109, 101, 114, 97, 98, 108, 101>>,  \* propertyIsEnumerable
     <<116, 111, 76, 111, 99, 97, 108, 101, 83, 116, 114, 105, 110, 103>>,  \* toLocaleString
     <<95, 95, 112, 114, 111, 116, 111, 95, 95>>,  \* __proto__
     <<95, 95, 100, 101, 102, 105, 110, 101, 71, 101, 116, 116, 101, 114, 95, 95>>,  \* __defineGetter__
     <<95, 95, 100, 101, 102, 105, 110, 101, 83, 101, 116, 116, 101, 114, 95, 95>>,  \* __defineSetter__
     <<95, 95, 108, 111, 111, 107, 117, 112, 71, 101, 116, 116, 101, 114, 95, 95>>,  \* __lookupGetter__
     <<95, 95, 108, 111, 111, 107, 117, 112, 83, 101, 116, 116, 101, 114, 95, 95>>  \* __lookupSetter__
  }

HasOwn(key) == \E k \in 1..Len(CITY_MAP) : CITY_MAP[k].id = key

OwnValue(key) ==
  CITY_MAP[CHOOSE k \in 1..Len(CITY_MAP) : CITY_MAP[k].id = key].name

\* CITY_MAP[key], server.js:83: own property, else the prototype chain,
\* else undefined
CityMapGet(key) ==
  IF HasOwn(key) THEN Str(OwnValue(key))
  ELSE IF key \in ObjectPrototypeKeys THEN Fn(key)
  ELSE Undefined

\* getSupportedCities, server.js:41-46
getSupportedCities ==
  [k \in 1..Len(CITY_MAP) |-> [id |-> CITY_MAP[k].id, name |-> CITY_MAP[k].name]]

----------------------------------------------------------------------------
(* Validation and resolution, server.js:64-65 and 83 *)

\* one character of the class [\u4e00-\u9fa5a-zA-Z0-9-]
validChar(c) ==
  \/ c >= 19968 /\ c <= 40869     \* \u4e00-\u9fa5
  \/ c >= 97 /\ c <= 122          \* a-z
  \/ c >= 65 /\ c <= 90           \* A-Z
  \/ c >= 48 /\ c <= 57           \* 0-9
  \/ c = 45                       \* -

\* the pattern without its anchors: one allowed character is enough
validPatternUnanchored(s) == \E i \in 1..Len(s) : validChar(s[i])

\* validPattern.test(s) for /^[...]+$/
validPattern(s) == Len(s) >= 1 /\ \A i \in 1..Len(s) : validChar(s[i])

\* !cityId || !validPattern.test(cityId)
invalidParam(s) == s = <<>> \/ ~validPattern(s)

\* a check that takes only an unset key for a missing one
missingKeyUnsetOnly(key) == key.type = "undefined"

\* !CWA_API_KEY, server.js:74
missingKey(key) == ~Truthy(key)

\* CITY_MAP[cityId.toLowerCase()] || cityId
resolveLocationName(s) ==
  LET found == CityMapGet(toLowerCase(s))
  IN IF Truthy(found) THEN found ELSE Str(s)

----------------------------------------------------------------------------
(* The upstream payload: response.data of a 2xx answer *)

\* elementName values the switch of server.js:133-152 knows, and one it
\* does not
RecognisedNames == {"Wx", "PoP", "MinT", "MaxT", "CI", "WS"}
ElementNames == RecognisedNames \cup {"UVI"}

\* names of the payloads that vary the lengths of the time series
RaggedNames == {"Wx", "UVI"}

\* Slot i of element e: its times and its value are distinct from those of
\* every other slot of the payload.  Slot `bad` carries no `parameter`.
Slot(e, i, bad) ==
  [startTime |-> Str(<<83, 48 + e, 48 + i>>),
   endTime |-> Str(<<69, 48 + e, 48 + i>>),
   parameter |-> IF i = bad THEN Undefined
                 ELSE [type |-> "object", parameterName |-> Str(<<48 + e, 48 + i>>)]]

Element(e, sh, bad) ==
  [elementName |-> sh.name,
   time |-> [i \in 1..sh.len |-> Slot(e, i, bad)]]

\* Lists of n (name, length of the time series) pairs, one pair per
\* weather element: every name, with one length for all elements ...
AlignedShapeLists(n) ==
  {[e \in 1..n |-> [name |-> names[e], len |-> len]] :
     names \in [1..n -> ElementNames], len \in 0..MaxSlots}

\* ... and every length, with the names of RaggedNames
RaggedShapeLists(n) == [1..n -> [name : RaggedNames, len : 0..MaxSlots]]

\* the slots of the last element that can lack `parameter` (0: none does)
BadSlots(shapes) ==
  IF shapes = <<>> THEN {0} ELSE 0..shapes[Len(shapes)].len

Location(shapes, bad) ==
  [locationName |-> Str(<<76, 79, 67>>),
   weatherElement |->
     [e \in 1..Len(shapes) |->
        Element(e, shapes[e], IF e = Len(shapes) THEN bad ELSE 0)]]

\* response.data without `records`, with records.location empty, and with
\* records.location holding one location
NoRecords == [hasRecords |-> FALSE, location |-> <<>>]
NoLocation == [hasRecords |-> TRUE, location |-> <<>>]
OneLocation(shapes, bad) == [hasRecords |-> TRUE, location |-> <<Location(shapes, bad)>>]

\* error.response.data of a non-2xx answer: the JSON literal null, an
\* absent body (axios gives ""), an object without and with `message`
ErrorBodies ==
  {Null,
   Str(<<>>),
   [type |-> "object", message |-> Undefined],
   [type |-> "object", message |-> Str(<<100, 101, 110, 105, 101, 100>>)]}

\* statuses axios rejects (validateStatus: 200 <= status < 300)
ErrorStatuses == {401, 404, 500, 503}

NoUpstream == [kind |-> "none"]

----------------------------------------------------------------------------
(* The transformation, server.js:116-156 *)

\* every period reads the times of the first slot
EmptyForecastFirstSlot(first, i) ==
  [startTime |-> first.time[1].startTime,
   endTime |-> first.time[1].endTime,
   weather |-> Str(<<>>),
   rain |-> Str(<<>>),
   minTemp |-> Str(<<>>),
   maxTemp |-> Str(<<>>),
   comfort |-> Str(<<>>),
   windSpeed |-> Str(<<>>)]

\* the forecast of period i before the elements are visited,
\* server.js:120-129
EmptyForecast(first, i) ==
  [startTime |-> first.time[i].startTime,
   endTime |-> first.time[i].endTime,
   weather |-> Str(<<>>),
   rain |-> Str(<<>>),
   minTemp |-> Str(<<>>),
   maxTemp |-> Str(<<>>),
   comfort |-> Str(<<>>),
   windSpeed |-> Str(<<>>)]

\* value.parameterName + suffix
WithSuffix(v, suffix) == Str(v.val \o suffix)

\* the switch with the MaxT case writing minTemp
switchElementMaxIntoMin(forecast, element, i) ==
  LET value == element.time[i].parameter
  IN CASE element.elementName = "Wx" ->
            [forecast EXCEPT !.weather = value.parameterName]
       [] element.elementName = "PoP" ->
            [forecast EXCEPT !.rain = WithSuffix(value.parameterName, <<37>>)]
       [] element.elementName = "MinT" ->
            [forecast EXCEPT !.minTemp = WithSuffix(value.parameterName, <<176, 67>>)]
       [] element.elementName = "MaxT" ->
            [forecast EXCEPT !.minTemp = WithSuffix(value.parameterName, <<176, 67>>)]
       [] element.elementName = "CI" ->
            [forecast EXCEPT !.comfort = value.parameterName]
       [] element.elementName = "WS" ->
            [forecast EXCEPT !.windSpeed = value.parameterName]
       [] OTHER -> forecast

\* the body of the forEach callback, server.js:132-152, where it does not
\* throw
switchElement(forecast, element, i) ==
  LET value == element.time[i].parameter
  IN CASE element.elementName = "Wx" ->
            [forecast EXCEPT !.weather = value.parameterName]
       [] element.elementName = "PoP" ->
            [forecast EXCEPT !.rain = WithSuffix(value.parameterName, <<37>>)]
       [] element.elementName = "MinT" ->
            [forecast EXCEPT !.minTemp = WithSuffix(value.parameterName, <<176, 67>>)]
       [] element.elementName = "MaxT" ->
            [forecast EXCEPT !.maxTemp = WithSuffix(value.parameterName, <<176, 67>>)]
       [] element.elementName = "CI" ->
            [forecast EXCEPT !.comfort = value.parameterName]
       [] element.elementName = "WS" ->
            [forecast EXCEPT !.windSpeed = value.parameterName]
       [] OTHER -> forecast

\* the callback throws a TypeError: element.time[i] is undefined
\* (server.js:132), or value is undefined where a case reads
\* value.parameterName (server.js:135-150)
callbackThrows(element, i) ==
  \/ i > Len(element.time)
  \/ /\ element.elementName \in RecognisedNames
     /\ element.time[i].parameter.type = "undefined"

RECURSIVE forEachElement(_, _, _, _)
\* weatherElements.forEach from element k on, server.js:131-153
forEachElement(forecast, weatherElements, k, i) ==
  IF k > Len(weatherElements) THEN forecast
  ELSE forEachElement(switchElement(forecast, weatherElements[k], i),
                      weatherElements, k + 1, i)

RECURSIVE longestFrom(_, _)
longestFrom(weatherElements, k) ==
  IF k > Len(weatherElements) THEN 0
  ELSE LET rest == longestFrom(weatherElements, k + 1)
       IN IF Len(weatherElements[k].time) > rest
          THEN Len(weatherElements[k].time) ELSE rest

\* the length of the longest series instead of the first element's
timeCountLongest(weatherElements) == longestFrom(weatherElements, 1)

\* weatherElements[0].time.length, server.js:117
timeCount(weatherElements) == Len(weatherElements[1].time)

\* server.js:116-156 throws: no first element, or the callback throws at
\* some i below timeCount
transformThrows(weatherElements) ==
  \/ weatherElements = <<>>
  \/ /\ weatherElements # <<>>
     /\ \E i \in 1..timeCount(weatherElements) :
          \E k \in 1..Len(weatherElements) :
            callbackThrows(weatherElements[k], i)

\* weatherData.forecasts after the loop, server.js:119-156
forecasts(weatherElements) ==
  [i \in 1..timeCount(weatherElements) |->
     forEachElement(EmptyForecast(weatherElements[1], i), weatherElements, 1, i)]

----------------------------------------------------------------------------
(* Response bodies.  `fields` names the properties the JSON body has; a    *)
(* property outside `fields` holds a placeholder.                          *)

NoData == [city |-> Undefined, updateTime |-> Undefined, forecasts |-> <<>>]
NoDetails == [type |-> "undefined", val |-> <<>>, message |-> Undefined]
Lit(text) == [type |-> "literal", text |-> text, arg |-> Undefined]

NoBody ==
  [fields |-> {}, error |-> "", message |-> Lit(""), supportedCities |-> <<>>,
   success |-> FALSE, data |-> NoData, details |-> NoDetails]

\* server.js:66-70
ValidationBody ==
  [NoBody EXCEPT
     !.fields = {"error", "message", "supportedCities"},
     !.error = "invalid city parameter",
     !.message = Lit("city id: letters, digits, hyphens or Chinese characters only"),
     !.supportedCities = getSupportedCities]

\* server.js:75-78
ConfigurationBody ==
  [NoBody EXCEPT
     !.fields = {"error", "message"},
     !.error = "server configuration error",
     !.message = Lit("set CWA_API_KEY in the .env file")]

\* the not-found body without the city list
NotFoundBodyWithoutCities(name) ==
  [NoBody EXCEPT
     !.fields = {"error", "message"},
     !.error = "no data",
     !.message = [type |-> "literal", text |-> "cannot get the weather of ${locationName}",
                  arg |-> name]]

\* server.js:101-105; the message interpolates locationName
NotFoundBody(name) ==
  [NoBody EXCEPT
     !.fields = {"error", "message", "supportedCities"},
     !.error = "no data",
     !.message = [type |-> "literal", text |-> "cannot get the weather of ${locationName}",
                  arg |-> name],
     !.supportedCities = getSupportedCities]

\* server.js:109-113 and 158-161
SuccessBody(data) ==
  [NoBody EXCEPT
     !.fields = {"success", "data"},
     !.success = TRUE,
     !.data = [city |-> data.location[1].locationName,
               updateTime |-> Str(<<68, 69, 83, 67>>),
               forecasts |-> forecasts(data.location[1].weatherElement)]]

\* error.response.data.message || "..." , server.js:169
upstreamMessage(body) ==
  IF body.type = "object" /\ Truthy(body.message)
  THEN [type |-> "string", text |-> "", arg |-> body.message]
  ELSE Lit("cannot get the weather data")

\* server.js:167-171
UpstreamErrorBody(body) ==
  [NoBody EXCEPT
     !.fields = {"error", "message", "details"},
     !.error = "CWA API error",
     !.message = upstreamMessage(body),
     !.details = body]

\* server.js:175-178
GenericBody ==
  [NoBody EXCEPT
     !.fields = {"error", "message"},
     !.error = "server error",
     !.message = Lit("cannot get the weather data, try again later")]

\* server.js:220-223; err.message is the TypeError's
MiddlewareBody ==
  [NoBody EXCEPT
     !.fields = {"error", "message"},
     !.error = "server error",
     !.message = Lit("Cannot read properties of null (reading 'message')")]

\* res.status(code).json(body)
send(r, code, body) == [statusCode |-> code, sent |-> r.sent + 1, body |-> body]

----------------------------------------------------------------------------
(* The handler getCityWeather, server.js:59-180 *)

\* what the handler threw or axios rejected with
TypeError == [hasResponse |-> FALSE, status |-> 0, data |-> NoDetails]
AxiosError(status, body) == [hasResponse |-> TRUE, status |-> status, data |-> body]
NetworkError == [hasResponse |-> FALSE, status |-> 0, data |-> NoDetails]

\* reading error.response.data.message throws when data is null
messageReadThrows(error) ==
  error.hasResponse /\ error.data.type \in {"null", "undefined"}

\* a catch block that runs the request again after a connection failure
catchBlockRetry(error, r) ==
  IF error.hasResponse
  THEN IF messageReadThrows(error)
       THEN [pc |-> "rejected", res |-> [r EXCEPT !.statusCode = error.status]]
       ELSE [pc |-> "done", res |-> send(r, error.status, UpstreamErrorBody(error.data))]
  ELSE [pc |-> "start", res |-> r]

\* the catch block, server.js:162-179: the new pc and res
catchBlock(error, r) ==
  IF error.hasResponse
  THEN IF messageReadThrows(error)
       \* res.status(...) has run; building the argument of json throws
       THEN [pc |-> "rejected", res |-> [r EXCEPT !.statusCode = error.status]]
       ELSE [pc |-> "done", res |-> send(r, error.status, UpstreamErrorBody(error.data))]
  ELSE [pc |-> "done", res |-> send(r, 500, GenericBody)]

\* server.js:97-161 with its catch: the new pc and res
afterResponse(data, name, r) ==
  IF ~data.hasRecords THEN catchBlock(TypeError, r)
  ELSE IF data.location = <<>>
  THEN [pc |-> "done", res |-> send(r, 404, NotFoundBody(name))]
  ELSE IF transformThrows(data.location[1].weatherElement)
  THEN catchBlock(TypeError, r)
  ELSE [pc |-> "done", res |-> send(r, r.statusCode, SuccessBody(data))]

\* the request arrives: server.js:61-95, up to the await
Handle ==
  /\ pc = "start"
  /\ IF invalidParam(cityId)
     THEN /\ res' = send(res, 400, ValidationBody)
          /\ pc' = "done"
          /\ UNCHANGED <<locationName, calls>>
     ELSE IF missingKey(CWA_API_KEY)
     THEN /\ res' = send(res, 500, ConfigurationBody)
          /\ pc' = "done"
          /\ UNCHANGED <<locationName, calls>>
     ELSE /\ locationName' = resolveLocationName(cityId)
          /\ calls' = calls + 1
          /\ pc' = "awaiting"
          /\ UNCHANGED res
  /\ UNCHANGED <<CWA_API_KEY, cityId, upstream>>

\* axios.get resolves with a 2xx answer carrying `data`: server.js:97-161
Resolve(data) ==
  LET after == afterResponse(data, locationName, res)
  IN /\ upstream' = [kind |-> "resolved", status |-> 200, data |-> data]
     /\ pc' = after.pc
     /\ res' = after.res

AxiosResolves ==
  /\ pc = "awaiting"
  /\ \/ Resolve(NoRecords)
     \/ Resolve(NoLocation)
     \/ \E n \in 0..MaxElements :
          \E shapes \in AlignedShapeLists(n) :
            \E bad \in BadSlots(shapes) : Resolve(OneLocation(shapes, bad))
     \/ \E n \in 0..MaxElements :
          \E shapes \in RaggedShapeLists(n) :
            \E bad \in BadSlots(shapes) : Resolve(OneLocation(shapes, bad))
  /\ UNCHANGED <<CWA_API_KEY, cityId, locationName, calls>>

\* axios.get rejects with the upstream's non-2xx answer: server.js:162-172
AxiosRejectsWithResponse ==
  /\ pc = "awaiting"
  /\ \E status \in ErrorStatuses, body \in ErrorBodies :
       LET after == catchBlock(AxiosError(status, body), res)
       IN /\ upstream' = [kind |-> "rejected", status |-> status, data |-> body]
          /\ pc' = after.pc
          /\ res' = after.res
  /\ UNCHANGED <<CWA_API_KEY, cityId, locationName, calls>>

\* axios.get rejects without an answer (timeout, DNS, refused):
\* server.js:162-165 and 174-178
AxiosRejectsWithoutResponse ==
  /\ pc = "awaiting"
  /\ upstream' = [kind |-> "failed", status |-> 0, data |-> NoDetails]
  /\ pc' = catchBlock(NetworkError, res).pc
  /\ res' = catchBlock(NetworkError, res).res
  /\ UNCHANGED <<CWA_API_KEY, cityId, locationName, calls>>

\* The handler's promise rejected.  A router that does not look at the
\* promise a handler returns (Express 4) leaves the request unanswered ...
RejectionUnhandled ==
  /\ pc = "rejected"
  /\ pc' = "unanswered"
  /\ UNCHANGED <<CWA_API_KEY, cityId, locationName, calls, upstream, res>>

\* ... and one that passes the rejection to next(err) (Express 5) runs the
\* error handling middleware, server.js:218-224.
ErrorMiddleware ==
  /\ pc = "rejected"
  /\ res' = send(res, 500, MiddlewareBody)
  /\ pc' = "done"
  /\ UNCHANGED <<CWA_API_KEY, cityId, locationName, calls, upstream>>

----------------------------------------------------------------------------
(* The request *)

\* process.env.CWA_API_KEY: unset, set to the empty string, set
ApiKeys == {Undefined, Str(<<>>), Str(<<75, 69, 89>>)}

\* req.params.id: the route binds a non-empty path segment
Tokens ==
  {<<116, 97, 105, 112, 101, 105>>,        \* taipei
   <<84, 65, 73, 80, 69, 73>>,             \* TAIPEI
   <<33274, 21271, 24066>>,                \* U+81FA U+5317 U+5E02
   <<65, 98, 45, 49>>,                     \* Ab-1
   <<99, 111, 110, 115, 116, 114, 117, 99, 116, 111, 114>>,  \* constructor
   <<97, 59, 98>>,                         \* a;b
   <<60>>,                                 \* <
   <<32>>,                                 \* a space
   <<33274, 32, 21271>>,                   \* U+81FA, a space, U+5317
   <<13312>>}                              \* U+3400, an ideograph of Extension A

Init ==
  /\ CWA_API_KEY \in ApiKeys
  /\ cityId \in Tokens
  /\ pc = "start"
  /\ locationName = Undefined
  /\ calls = 0
  /\ upstream = NoUpstream
  /\ res = [statusCode |-> 200, sent |-> 0, body |-> NoBody]

Next ==
  \/ Handle
  \/ AxiosResolves
  \/ AxiosRejectsWithResponse
  \/ AxiosRejectsWithoutResponse
  \/ RejectionUnhandled
  \/ ErrorMiddleware

Spec == Init /\ [][Next]_vars

----------------------------------------------------------------------------
(* Vocabulary of the properties *)

\* the request is over: answered, or left without an answer
Terminal == pc \in {"done", "unanswered"}

\* the upstream answered 2xx with a location
HasLocation ==
  /\ upstream.kind = "resolved"
  /\ upstream.data.hasRecords
  /\ upstream.data.location # <<>>

\* the weather elements of that location
Elements == upstream.data.location[1].weatherElement

\* the one response sent is the success payload
Success ==
  /\ pc = "done"
  /\ res.sent = 1
  /\ res.statusCode = 200
  /\ res.body.fields = {"success", "data"}
  /\ res.body.success

\* the one response sent is the generic HTTP 500
GenericError ==
  /\ pc = "done"
  /\ res.sent = 1
  /\ res.statusCode = 500
  /\ res.body = GenericBody

\* the one response sent has `code` and the supported-city list
WithCityList(code) ==
  /\ pc = "done"
  /\ res.sent = 1
  /\ res.statusCode = code
  /\ "supportedCities" \in res.body.fields
  /\ res.body.supportedCities = getSupportedCities
  /\ Len(res.body.supportedCities) = Len(CITY_MAP)

\* a Han ideograph: the URO, Extension A, the compatibility block, and the
\* supplementary planes' extensions
HanIdeograph(c) ==
  \/ c >= 19968 /\ c <= 40959
  \/ c >= 13312 /\ c <= 19903
  \/ c >= 63744 /\ c <= 64255
  \/ c >= 131072 /\ c <= 205743

AsciiLetterDigitHyphen(c) ==
  \/ c >= 97 /\ c <= 122
  \/ c >= 65 /\ c <= 90
  \/ c >= 48 /\ c <= 57
  \/ c = 45

\* the token has a character that is none of these
OutsideAllowedClass(s) ==
  \E i \in 1..Len(s) : ~(HanIdeograph(s[i]) \/ AsciiLetterDigitHyphen(s[i]))

\* the weather elements all have series of one length
SameLengths(we) ==
  /\ we # <<>>
  /\ \A k \in 1..Len(we) : Len(we[k].time) = Len(we[1].time)

EverySlotHasParameter(we) ==
  \A k \in 1..Len(we) : \A i \in 1..Len(we[k].time) :
    we[k].time[i].parameter.type = "object"

\* the last element of a name, and the field its slot i gives
LastNamed(we, name) ==
  CHOOSE k \in 1..Len(we) :
    /\ we[k].elementName = name
    /\ \A j \in 1..Len(we) : we[j].elementName = name => j <= k

FieldOf(we, i, name, suffix) ==
  IF \A k \in 1..Len(we) : we[k].elementName # name
  THEN Str(<<>>)
  ELSE Str(we[LastNamed(we, name)].time[i].parameter.parameterName.val \o suffix)

\* an element's series is shorter, or longer, than the first element's
SomeShorter(we) == \E k \in 1..Len(we) : Len(we[k].time) < Len(we[1].time)
SomeLonger(we) == \E k \in 1..Len(we) : Len(we[k].time) > Len(we[1].time)

\* the elements with every series cut to the length of the first
Truncated(we) ==
  [k \in 1..Len(we) |->
     [we[k] EXCEPT !.time =
        SubSeq(@, 1, IF Len(@) > Len(we[1].time) THEN Len(we[1].time) ELSE Len(@))]]

FailsWithoutForecasts ==
  /\ GenericError
  /\ "data" \notin res.body.fields
  /\ res.body.data.forecasts = <<>>

SucceedsIgnoringTails ==
  /\ Success
  /\ Len(res.body.data.forecasts) = Len(Elements[1].time)
  /\ res.body.data.forecasts = forecasts(Truncated(Elements))

\* the slots the loop reads of recognised elements carry their parameter
ReadSlotsHaveParameter(we) ==
  \A k \in 1..Len(we) : \A i \in 1..Len(we[k].time) :
    (i <= Len(we[1].time) /\ we[k].elementName \in RecognisedNames) =>
      we[k].time[i].parameter.type = "object"

----------------------------------------------------------------------------
\* C1: a request whose token has a character that is no Han ideograph,
\* ASCII letter, digit or hyphen is answered with HTTP 400 and the full
\* supported-city list, and no upstream call is issued, whatever the
\* credential.
C1_InvalidTokenRejected ==
  (pc # "start" /\ OutsideAllowedClass(cityId)) =>
    /\ WithCityList(400)
    /\ res.body = ValidationBody
    /\ calls = 0
    /\ upstream.kind = "none"

\* a token with `;` was rejected although a credential is configured
C1_Witness ==
  /\ pc = "done"
  /\ cityId = <<97, 59, 98>>
  /\ Truthy(CWA_API_KEY)
  /\ res.statusCode = 400
  /\ calls = 0

\* C2: a request whose token passes the validation while no credential is
\* configured is answered with HTTP 500 and the configuration-error body,
\* and in no state of it has the upstream call been issued.
C2_NoCredentialNoCall ==
  (pc # "start" /\ validPattern(cityId) /\ ~Truthy(CWA_API_KEY)) =>
    /\ pc = "done"
    /\ res.sent = 1
    /\ res.statusCode = 500
    /\ res.body = ConfigurationBody
    /\ calls = 0
    /\ upstream.kind = "none"

\* taipei was asked for while CWA_API_KEY is the empty string
C2_Witness ==
  /\ pc = "done"
  /\ cityId = <<116, 97, 105, 112, 101, 105>>
  /\ CWA_API_KEY = Str(<<>>)
  /\ res.statusCode = 500
  /\ res.body = ConfigurationBody

\* C3: for every token of the allowed class the resolved name is a
\* non-empty string: the localized name of the lower-cased token where that
\* is an id of the city table, and the token itself, unchanged, where it is
\* not.
C3_ResolveTotal ==
  (calls >= 1) =>
    /\ locationName.type = "string"
    /\ locationName.val # <<>>
    /\ HasOwn(toLowerCase(cityId)) =>
         locationName = Str(OwnValue(toLowerCase(cityId)))
    /\ ~HasOwn(toLowerCase(cityId)) => locationName = Str(cityId)

\* C4: where the location's weather elements all have series of one
\* length L, the success response has exactly L periods and period i has
\* the startTime and endTime of slot i of the first element; and that
\* success response is sent where every slot carries its parameter.
C4_PeriodsFollowFirstElement ==
  (Terminal /\ HasLocation /\ SameLengths(Elements)) =>
    /\ EverySlotHasParameter(Elements) => Success
    /\ Success =>
         /\ Len(res.body.data.forecasts) = Len(Elements[1].time)
         /\ \A i \in 1..Len(Elements[1].time) :
              /\ res.body.data.forecasts[i].startTime = Elements[1].time[i].startTime
              /\ res.body.data.forecasts[i].endTime = Elements[1].time[i].endTime

\* a success with MaxElements elements of MaxSlots slots each
C4_Witness ==
  /\ HasLocation
  /\ SameLengths(Elements)
  /\ Len(Elements) = MaxElements
  /\ Len(Elements[1].time) = MaxSlots
  /\ Success
  /\ Len(res.body.data.forecasts) = MaxSlots

\* C5: in period i of a success response each field is fixed by the
\* elements of its name: the empty string where there is none, else the
\* value of slot i of that element (of the last one where several share the
\* name), followed by "%" for rain and by the degree sign and "C" for
\* minTemp and maxTemp; elements of other names change nothing.
C5_FieldsByElementName ==
  (HasLocation /\ Success) =>
    \A i \in 1..Len(res.body.data.forecasts) :
      LET f == res.body.data.forecasts[i]
      IN /\ f.weather = FieldOf(Elements, i, "Wx", <<>>)
         /\ f.rain = FieldOf(Elements, i, "PoP", <<37>>)
         /\ f.minTemp = FieldOf(Elements, i, "MinT", <<176, 67>>)
         /\ f.maxTemp = FieldOf(Elements, i, "MaxT", <<176, 67>>)
         /\ f.comfort = FieldOf(Elements, i, "CI", <<>>)
         /\ f.windSpeed = FieldOf(Elements, i, "WS", <<>>)

\* a success on the elements MinT, MaxT and an element of another name
\* whose first slot has no parameter
C5_Witness ==
  /\ HasLocation
  /\ Success
  /\ Len(Elements) = 3
  /\ Elements[1].elementName = "MinT"
  /\ Elements[2].elementName = "MaxT"
  /\ Elements[3].elementName = "UVI"
  /\ Len(Elements[3].time) >= 1
  /\ Elements[3].time[1].parameter.type = "undefined"
  /\ res.body.data.forecasts[1].minTemp = Str(<<49, 49, 176, 67>>)
  /\ res.body.data.forecasts[1].maxTemp = Str(<<50, 49, 176, 67>>)
  /\ res.body.data.forecasts[1].rain = Str(<<>>)

\* C6: a 2xx answer whose location array is empty is answered with HTTP
\* 404 and the full supported-city list, no success payload is sent, and
\* no other outcome is a 404 with a city list.
C6_EmptyLocationIsNotFound ==
  /\ (upstream.kind = "resolved" /\ upstream.data.hasRecords
        /\ upstream.data.location = <<>>) =>
       /\ WithCityList(404)
       /\ res.body = NotFoundBody(locationName)
       /\ ~res.body.success
       /\ "data" \notin res.body.fields
  /\ (res.sent >= 1 /\ res.statusCode = 404 /\ "supportedCities" \in res.body.fields) =>
       /\ upstream.kind = "resolved"
       /\ upstream.data.hasRecords
       /\ upstream.data.location = <<>>

\* the upstream knew no location of the name passed through
C6_Witness ==
  /\ pc = "done"
  /\ cityId = <<65, 98, 45, 49>>
  /\ upstream.kind = "resolved"
  /\ upstream.data.hasRecords
  /\ upstream.data.location = <<>>
  /\ res.statusCode = 404

\* C7: a non-2xx answer of status S is answered with status S and the
\* upstream body; a connection failure is answered with HTTP 500.
C7_UpstreamStatusPassedThrough ==
  /\ (Terminal /\ upstream.kind = "rejected") =>
       /\ res.sent = 1
       /\ res.statusCode = upstream.status
       /\ "details" \in res.body.fields
       /\ res.body.details = upstream.data
  /\ (Terminal /\ upstream.kind = "failed") =>
       /\ res.sent = 1
       /\ res.statusCode = 500

\* C8: every request is answered exactly once with a status and a JSON
\* body, and no error escapes the handler or leaves the request
\* unanswered.
C8_EveryErrorMapped ==
  /\ pc # "rejected"
  /\ pc # "unanswered"
  /\ pc = "done" => (res.sent = 1 /\ res.body.fields # {})
  /\ pc # "done" => res.sent = 0

\* C9: a request issues at most one upstream call, exactly one once its
\* token has passed the validation with a credential configured, and none
\* otherwise; no outcome of the call brings a second one.
C9_OneCallNoRetry ==
  /\ calls <= 1
  /\ (pc # "start" /\ validPattern(cityId) /\ Truthy(CWA_API_KEY)) => calls = 1
  /\ (~validPattern(cityId) \/ ~Truthy(CWA_API_KEY)) => calls = 0
  /\ upstream.kind # "none" => calls = 1

\* the one call failed at connection level and the request is over
C9_Witness ==
  /\ pc = "done"
  /\ calls = 1
  /\ upstream.kind = "failed"
  /\ res.sent = 1

C10_ShorterReached ==
  /\ HasLocation
  /\ Elements # <<>>
  /\ SomeShorter(Elements)
  /\ GenericError

====
